---- MODULE Spec2Model ----
(***************************************************************************)
(* Model of the data-collection pipeline of strategic-company-analyzer:    *)
(*   data_collector.py   CompanyDataCollector (normalizer, primary fetch,  *)
(*                       secondary scraper, merge)                         *)
(*   database_manager.py DatabaseManager (the four store writes)           *)
(*   app.py              collect_industry_data / collect_custom_data       *)
(*                                                                         *)
(* Python values are tagged records [t, m, e, s]:                          *)
(*   t = "none"  None                                                      *)
(*   t = "num"   the number m * 10^e (decimal floating point, normalised)  *)
(*   t = "str"   the string s, a sequence of one-character strings         *)
(*   t = "nan"   a NaN cell of a price frame                               *)
(*   t = "list"  a value float() rejects with TypeError                    *)
(***************************************************************************)
EXTENDS Integers, Sequences, FiniteSets, TLC

\* ------------------------------------------------------------------ bounds
MaxBatch == 2
MaxHist == 2
MaxOfficers == 6

\* ------------------------------------------------------------------ values
RECURSIVE NormNum(_, _)
NormNum(m, e) ==
    IF m = 0 THEN [m |-> 0, e |-> 0]
    ELSE IF m % 10 = 0 THEN NormNum(m \div 10, e + 1)
    ELSE [m |-> m, e |-> e]

PyNone == [t |-> "none", m |-> 0, e |-> 0, s |-> <<>>]
Num(n) == [t |-> "num", m |-> NormNum(n, 0).m, e |-> NormNum(n, 0).e, s |-> <<>>]
NumE(m, e) == [t |-> "num", m |-> NormNum(m, e).m, e |-> NormNum(m, e).e, s |-> <<>>]
Str(s) == [t |-> "str", m |-> 0, e |-> 0, s |-> s]

NA == Str(<<"N", "/", "A">>)
EmptyStr == Str(<<>>)

\* Python truthiness of a value (bool(v)).
Truthy(v) ==
    CASE v.t = "none" -> FALSE
      [] v.t = "num" -> v.m # 0
      [] OTHER -> v.s # <<>>

\* float(n) of an int n raises OverflowError when n is beyond the range of a
\* double, whose largest decimal exponent is 308 (sys.float_info.max_10_exp);
\* a float never is. A number of d digits and exponent e is at least
\* 10^(d - 1 + e).
FloatMax10Exp == 308
RECURSIVE NumDigits(_)
NumDigits(m) ==
    IF m < 0 THEN NumDigits(0 - m)
    ELSE IF m < 10 THEN 1
    ELSE 1 + NumDigits(m \div 10)
TooLargeForFloat(v) == v.t = "num" /\ v.m # 0 /\ NumDigits(v.m) - 1 + v.e > FloatMax10Exp

\* value * 10^k, as `float(...) * 1e12` and the like compute it.
Scale(v, k) == NumE(v.m, v.e + k)

\* ------------------------------------------------------------------ text
Digits == {"0", "1", "2", "3", "4", "5", "6", "7", "8", "9"}
DigitVal(c) ==
    CASE c = "0" -> 0 [] c = "1" -> 1 [] c = "2" -> 2 [] c = "3" -> 3
      [] c = "4" -> 4 [] c = "5" -> 5 [] c = "6" -> 6 [] c = "7" -> 7
      [] c = "8" -> 8 [] OTHER -> 9

\* str.upper() on the characters the model uses.
UpperChar(c) ==
    CASE c = "a" -> "A" [] c = "b" -> "B" [] c = "m" -> "M" [] c = "t" -> "T"
      [] c = "x" -> "X" [] c = "g" -> "G" [] c = "r" -> "R" [] c = "e" -> "E"
      [] OTHER -> c
Upper(s) == [i \in 1..Len(s) |-> UpperChar(s[i])]

\* str.replace(c, '') : every occurrence of the character c removed.
Remove(s, c) == SelectSeq(s, LAMBDA x : x # c)

RECURSIVE LStrip(_)
LStrip(s) == IF s # <<>> /\ Head(s) = " " THEN LStrip(Tail(s)) ELSE s
RECURSIVE RStrip(_)
RStrip(s) ==
    IF s # <<>> /\ s[Len(s)] = " " THEN RStrip(SubSeq(s, 1, Len(s) - 1)) ELSE s
\* str.strip()
Strip(s) == LStrip(RStrip(s))

Contains(s, c) == \E i \in 1..Len(s) : s[i] = c

RECURSIVE DigitsValue(_)
DigitsValue(s) ==
    IF s = <<>> THEN 0
    ELSE 10 * DigitsValue(SubSeq(s, 1, Len(s) - 1)) + DigitVal(s[Len(s)])

\* float(text): surrounding blanks stripped, an optional sign, digits with at
\* most one decimal point and at least one digit.  [ok |-> FALSE] stands for
\* the ValueError float() raises.
ParseFloat(text) ==
    LET s0 == Strip(text)
        neg == s0 # <<>> /\ Head(s0) = "-"
        s1 == IF s0 # <<>> /\ Head(s0) \in {"-", "+"} THEN Tail(s0) ELSE s0
        dots == Len(SelectSeq(s1, LAMBDA x : x = "."))
        ds == Remove(s1, ".")
        wellFormed == /\ ds # <<>>
                      /\ dots <= 1
                      /\ \A i \in 1..Len(ds) : ds[i] \in Digits
        dotAt == CHOOSE i \in 1..(Len(s1) + 1) :
                    IF dots = 1 THEN s1[i] = "." ELSE i = Len(s1) + 1
        frac == IF dots = 1 THEN Len(s1) - dotAt ELSE 0
        mag == DigitsValue(ds)
    IN  IF wellFormed
        THEN [ok |-> TRUE, v |-> NumE(IF neg THEN 0 - mag ELSE mag, 0 - frac)]
        ELSE [ok |-> FALSE, v |-> PyNone]

\* ------------------------------------------------------- dictionaries
\* dict.get(key, default) on a dictionary modelled as a function.
Get(d, k, default) == IF k \in DOMAIN d THEN d[k] ELSE default

\* d[k] = v on a dictionary (the key is added when absent).
Put(d, k, v) == [x \in (DOMAIN d) \cup {k} |-> IF x = k THEN v ELSE d[x]]

EmptyDict == [x \in {} |-> PyNone]

\* ------------------------------------------------------- field normalizer
\* CompanyDataCollector._safe_get_number: the handler catches ValueError and
\* TypeError only, so the OverflowError of float() on an int beyond the range
\* of a double leaves the function.
SafeGetNumberRaises(info, key, default) ==
    TooLargeForFloat(Get(info, key, default))
SafeGetNumber(info, key, default) ==
    LET value == Get(info, key, default)
    IN  CASE value.t = "none" -> default
          [] value.t = "num" -> value
          [] OTHER -> IF ParseFloat(value.s).ok THEN ParseFloat(value.s).v
                      ELSE default

\* CompanyDataCollector._parse_market_value
ParseMarketValue(value_str) ==
    LET s == Remove(Remove(Upper(Strip(value_str)), "$"), ",")
        scaled(c, k) == LET f == ParseFloat(Remove(s, c))
                        IN  IF f.ok THEN Scale(f.v, k) ELSE Num(0)
    IN  IF Contains(s, "T") THEN scaled("T", 12)
        ELSE IF Contains(s, "B") THEN scaled("B", 9)
        ELSE IF Contains(s, "M") THEN scaled("M", 6)
        ELSE IF ParseFloat(s).ok THEN ParseFloat(s).v
        ELSE Num(0)

\* ------------------------------------------------------- secondary scraper
\* The quote page as the scraper sees it: kind "error" is a network error or
\* timeout of session.get, "status" a response whose status is not 200, "ok"
\* a parsed document. price is the text of the regularMarketPrice element
\* (<<>> when there is no such element, <<text>> otherwise); mcs the texts of
\* the MARKET_CAP-value cells in document order.
RECURSIVE FirstNonEmpty(_)
FirstNonEmpty(texts) ==
    IF texts = <<>> THEN <<>>
    ELSE IF Head(texts) # <<>> THEN <<Head(texts)>>
    ELSE FirstNonEmpty(Tail(texts))

\* Mutant of the scraper: the two extractions under the outer handler only,
\* so that a price that does not parse gives up the whole page.
ScrapeUnderOneGuard(page) ==
    IF page.kind # "ok" THEN EmptyDict
    ELSE IF page.price # <<>> /\ page.price[1] # <<>>
            /\ ~ParseFloat(Remove(page.price[1], ",")).ok
    THEN EmptyDict
    ELSE
      LET d1 == IF page.price # <<>> /\ page.price[1] # <<>>
                THEN Put(EmptyDict, "current_price",
                         ParseFloat(Remove(page.price[1], ",")).v)
                ELSE EmptyDict
          mc == FirstNonEmpty(page.mcs)
      IN  IF mc # <<>> THEN Put(d1, "market_cap", ParseMarketValue(mc[1])) ELSE d1

\* CompanyDataCollector.scrape_yahoo_finance_safe
ScrapeYahooFinanceSafe(page) ==
    IF page.kind # "ok" THEN EmptyDict
    ELSE
      LET priceParse == IF page.price # <<>> /\ page.price[1] # <<>>
                        THEN ParseFloat(Remove(page.price[1], ","))
                        ELSE [ok |-> FALSE, v |-> PyNone]
          d1 == IF priceParse.ok THEN Put(EmptyDict, "current_price", priceParse.v)
                ELSE EmptyDict
          mc == FirstNonEmpty(page.mcs)
      IN  IF mc # <<>> THEN Put(d1, "market_cap", ParseMarketValue(mc[1])) ELSE d1

\* ------------------------------------------------------- collection
\* Mutants of the merge test: the test on the collected value dropped; the
\* number 0 left out of the unset values.
MergeOverwritesAlways(company_data, key, value) == Truthy(value)
MergeOverwritesTextOnly(company_data, key, value) ==
    Truthy(value) /\ Get(company_data, key, PyNone) \in {NA, EmptyStr}

\* The merge test of get_company_basic_info (line 62): the scraped value is
\* truthy and the collected one is falsy or one of 0, 'N/A', ''.
MergeOverwrites(company_data, key, value) ==
    LET cur == Get(company_data, key, PyNone)
    IN  Truthy(value) /\ (~Truthy(cur) \/ cur \in {Num(0), NA, EmptyStr})

\* The merge loop of get_company_basic_info (lines 59-63). The scraped keys
\* are distinct, so the order of the loop does not matter.
Merge(company_data, scraped) ==
    [k \in (DOMAIN company_data) \cup
           {x \in DOMAIN scraped : MergeOverwrites(company_data, x, scraped[x])} |->
        IF k \in DOMAIN scraped /\ MergeOverwrites(company_data, k, scraped[k])
        THEN scraped[k]
        ELSE company_data[k]]

\* The sparse-data test of get_company_basic_info (line 28):
\* `not info or len(info) < 5`. src.kind "none" is ticker.info returning
\* None, "bag" a dictionary.
MinInfoFields == 5
\* Mutant of the sparse-data test: the threshold one lower.
LimitedDataBelowFour(src) ==
    src.kind = "none" \/ Cardinality(DOMAIN src.bag) < MinInfoFields - 1
LimitedData(src) == src.kind = "none" \/ Cardinality(DOMAIN src.bag) < MinInfoFields

\* ', '.join(parts)
RECURSIVE JoinParts(_)
JoinParts(parts) ==
    IF Len(parts) = 1 THEN parts[1].s
    ELSE parts[1].s \o <<",", " ">> \o JoinParts(Tail(parts))

\* Mutant of the location: the empty parts are not left out.
FormatLocationKeepEmpty(info) ==
    LET all == <<Get(info, "city", EmptyStr), Get(info, "state", EmptyStr),
                 Get(info, "country", EmptyStr)>>
    IN  IF \E i \in 1..3 : all[i].t # "str" THEN NA ELSE Str(JoinParts(all))

\* CompanyDataCollector._format_location: the truthy ones among city, state
\* and country joined with ', ', 'N/A' when there is none. join() raises on a
\* part that is not text, which the handler turns into 'N/A'.
FormatLocation(info) ==
    LET all == <<Get(info, "city", EmptyStr), Get(info, "state", EmptyStr),
                 Get(info, "country", EmptyStr)>>
        parts == SelectSeq(all, Truthy)
    IN  IF \E i \in 1..Len(parts) : parts[i].t # "str" THEN NA
        ELSE IF parts # <<>> THEN Str(JoinParts(parts))
        ELSE NA

\* CompanyDataCollector._get_description: the business summary, cut to its
\* first 500 characters with '...' appended when it is longer; without a
\* summary the 'description' field as it is, 'N/A' without it. Slicing a
\* summary that is not text raises, which the handler turns into 'N/A'.
DescLimit == 500
Ellipsis == <<".", ".", ".">>
GetDescription(info) ==
    LET desc == Get(info, "longBusinessSummary", EmptyStr)
    IN  IF Truthy(desc)
        THEN IF desc.t # "str" THEN NA
             ELSE IF Len(desc.s) > DescLimit
                  THEN Str(SubSeq(desc.s, 1, DescLimit) \o Ellipsis)
                  ELSE desc
        ELSE Get(info, "description", NA)

\* The profile built from the primary field bag (lines 33-54).
PrimaryProfile(symbol, info) ==
    [f \in {"symbol", "company_name", "sector", "market_cap", "employees",
            "description", "current_price"} |->
        CASE f = "symbol" -> Str(Upper(symbol))
          [] f = "description" -> GetDescription(info)
          [] f = "company_name" ->
                Get(info, "longName", Get(info, "shortName", Str(symbol)))
          [] f = "sector" -> Get(info, "sector", NA)
          [] f = "market_cap" -> SafeGetNumber(info, "marketCap", Num(0))
          [] f = "employees" -> SafeGetNumber(info, "fullTimeEmployees", Num(0))
          [] OTHER -> SafeGetNumber(info, "currentPrice", Num(0))]

\* A field conversion of lines 38-52 raising, which the outer handler of
\* get_company_basic_info turns into None.
ProfileRaises(info) ==
    \E key \in {"marketCap", "fullTimeEmployees", "currentPrice"} :
        SafeGetNumberRaises(info, key, Num(0))

Unavailable == [ok |-> FALSE, data |-> EmptyDict]

\* Whether get_company_basic_info gets as far as line 58, the call of the
\* secondary scraper.
ScraperCalled(src) ==
    src.kind # "raise" /\ ~LimitedData(src) /\ ~ProfileRaises(src.bag)

\* CompanyDataCollector.get_company_basic_info. src.kind "raise" is ticker.info
\* raising, which the outer handler turns into None.
GetCompanyBasicInfo(symbol, src, page) ==
    IF ~ScraperCalled(src) THEN Unavailable
    ELSE [ok |-> TRUE,
          data |-> Merge(PrimaryProfile(symbol, src.bag), ScrapeYahooFinanceSafe(page))]

\* ------------------------------------------------------- persistence store
\* A table is the sequence of its rows in rowid order. A storage fault is
\* [at, k]: at "none" (no fault), "connect", "delete", "insert" (the k-th
\* INSERT of the call) or "commit".
NoFault == [at |-> "none", k |-> 0]

\* The columns insert_company_data binds, with the default of each .get().
CompanyColumns == {"symbol", "company_name", "sector", "market_cap", "employees",
                   "description", "current_price"}
CompanyDefault(col) ==
    IF col \in {"symbol", "company_name", "sector"} THEN PyNone
    ELSE IF col = "description" THEN EmptyStr
    ELSE Num(0)
CompanyRow(company_data) ==
    [col \in CompanyColumns |-> Get(company_data, col, CompanyDefault(col))]

\* Mutants of the upsert: a plain INSERT on a table without the UNIQUE
\* constraint; INSERT OR IGNORE, which keeps the stored row.
InsertPlain(companies_t, row) == Append(companies_t, row)
InsertOrIgnore(companies_t, row) ==
    IF \E i \in 1..Len(companies_t) : companies_t[i]["symbol"] = row["symbol"]
    THEN companies_t
    ELSE Append(companies_t, row)

\* INSERT OR REPLACE INTO companies: symbol is UNIQUE NOT NULL, so the row
\* holding the same symbol, if any, is deleted and the new row is added; a
\* NULL symbol aborts the statement.
InsertOrReplace(companies_t, row) ==
    Append(SelectSeq(companies_t, LAMBDA r : r["symbol"] # row["symbol"]), row)

\* DatabaseManager.insert_company_data
InsertCompanyData(companies_t, company_data, fault) ==
    LET row == CompanyRow(company_data)
        raised == fault.at # "none" \/ row["symbol"].t = "none"
    IN  [ok |-> ~raised,
         table |-> IF raised THEN companies_t ELSE InsertOrReplace(companies_t, row)]

\* int(x) of a number: truncation toward zero.
RECURSIVE Pow10(_)
Pow10(k) == IF k <= 0 THEN 1 ELSE 10 * Pow10(k - 1)
IntOf(v) ==
    IF v.e >= 0 THEN v
    ELSE IF v.m >= 0 THEN Num(v.m \div Pow10(0 - v.e))
    ELSE Num(0 - ((0 - v.m) \div Pow10(0 - v.e)))

NaN == [t |-> "nan", m |-> 0, e |-> 0, s |-> <<>>]

\* One row of the price DataFrame: ts = [day, tod] is the index timestamp,
\* close and volume are cells (a number or NaN).
\* The row conversion of insert_stock_history (lines 187-193): strftime keeps
\* the calendar day only, int() of a NaN volume raises ValueError.
HistoryRowRaises(dfrow) == dfrow.volume.t = "nan"
HistoryRow(symbol, dfrow) ==
    [symbol |-> Str(symbol), date |-> dfrow.ts.day, close_price |-> dfrow.close,
     volume |-> IntOf(dfrow.volume)]

\* Index of the first INSERT of a delete-then-insert call that raises, 0 when
\* none does. `raising` holds the indices of the rows whose conversion raises.
FirstRaise(n, raising, fault) ==
    LET bad == {i \in 1..n : i \in raising \/ (fault.at = "insert" /\ fault.k = i)}
    IN  IF bad = {} THEN 0 ELSE CHOOSE i \in bad : \A j \in bad : i <= j

\* Mutant of the transaction: the DELETE without its WHERE clause.
ReplaceTxnDeleteAll(t, symbol, rows, raising, fault) ==
    LET n == Len(rows)
        stop == FirstRaise(n, raising, fault)
        upto == IF stop = 0 THEN n ELSE stop - 1
    IN  [committed |-> fault.at \notin {"connect", "delete", "commit"} /\ stop = 0,
         work |-> IF fault.at = "connect" THEN t
                  ELSE IF fault.at = "delete" THEN t
                  ELSE SubSeq(rows, 1, upto)]

\* The transaction of a delete-then-insert call on table t: `work` is the
\* connection's own view when the call ends, `committed` whether commit()
\* was reached and succeeded.
ReplaceTxn(t, symbol, rows, raising, fault) ==
    LET n == Len(rows)
        stop == FirstRaise(n, raising, fault)
        deleted == SelectSeq(t, LAMBDA r : r.symbol # Str(symbol))
        upto == IF stop = 0 THEN n ELSE stop - 1
    IN  [committed |-> fault.at \notin {"connect", "delete", "commit"} /\ stop = 0,
         work |-> IF fault.at = "connect" THEN t
                  ELSE IF fault.at = "delete" THEN t
                  ELSE deleted \o SubSeq(rows, 1, upto)]

\* Mutants of insert_stock_history: the DELETE left out; every statement
\* committed as it runs (no rollback of a failed call).
InsertStockHistoryAppend(history_t, symbol, stock_df, fault) ==
    LET rows == [i \in 1..Len(stock_df) |-> HistoryRow(symbol, stock_df[i])]
        txn == ReplaceTxn(<<>>, symbol, rows,
                          {i \in 1..Len(stock_df) : HistoryRowRaises(stock_df[i])},
                          fault)
    IN  [ok |-> txn.committed,
         table |-> IF txn.committed THEN history_t \o txn.work ELSE history_t]
InsertStockHistoryNoRollback(history_t, symbol, stock_df, fault) ==
    LET rows == [i \in 1..Len(stock_df) |-> HistoryRow(symbol, stock_df[i])]
        txn == ReplaceTxn(history_t, symbol, rows,
                          {i \in 1..Len(stock_df) : HistoryRowRaises(stock_df[i])},
                          fault)
    IN  [ok |-> txn.committed, table |-> txn.work]

\* DatabaseManager.insert_stock_history: the DELETE and the INSERTs run in one
\* implicit transaction; when a statement raises, commit() is never reached
\* and the connection is dropped, which rolls the transaction back.
InsertStockHistory(history_t, symbol, stock_df, fault) ==
    LET rows == [i \in 1..Len(stock_df) |-> HistoryRow(symbol, stock_df[i])]
        txn == ReplaceTxn(history_t, symbol, rows,
                          {i \in 1..Len(stock_df) : HistoryRowRaises(stock_df[i])},
                          fault)
    IN  [ok |-> txn.committed,
         table |-> IF txn.committed THEN txn.work ELSE history_t]

\* DatabaseManager.insert_executives
ExecutiveRow(symbol, exec_data) ==
    [symbol |-> Str(symbol), name |-> Get(exec_data, "name", EmptyStr),
     title |-> Get(exec_data, "title", EmptyStr)]
InsertExecutives(executives_t, symbol, execs, fault) ==
    LET rows == [i \in 1..Len(execs) |-> ExecutiveRow(symbol, execs[i])]
        txn == ReplaceTxn(executives_t, symbol, rows, {}, fault)
    IN  [ok |-> txn.committed,
         table |-> IF txn.committed THEN txn.work ELSE executives_t]

\* The twelve ratios and the provider field each is read from
\* (get_financial_ratios, lines 210-223).
RatioNames == {"pe_ratio", "forward_pe", "peg_ratio", "price_to_sales",
               "price_to_book", "debt_to_equity", "roe", "roa", "profit_margin",
               "operating_margin", "current_ratio", "quick_ratio"}
RatioField(name) ==
    CASE name = "pe_ratio" -> "trailingPE"
      [] name = "forward_pe" -> "forwardPE"
      [] name = "peg_ratio" -> "pegRatio"
      [] name = "price_to_sales" -> "priceToSalesTrailing12Months"
      [] name = "price_to_book" -> "priceToBook"
      [] name = "debt_to_equity" -> "debtToEquity"
      [] name = "roe" -> "returnOnEquity"
      [] name = "roa" -> "returnOnAssets"
      [] name = "profit_margin" -> "profitMargins"
      [] name = "operating_margin" -> "operatingMargins"
      [] name = "current_ratio" -> "currentRatio"
      [] OTHER -> "quickRatio"

\* DatabaseManager.insert_financial_ratios
RatiosRow(symbol, ratios) ==
    [c \in RatioNames \cup {"symbol"} |->
        IF c = "symbol" THEN Str(symbol) ELSE Get(ratios, c, Num(0))]
InsertFinancialRatios(ratios_t, symbol, ratios, fault) ==
    LET txn == ReplaceTxn(ratios_t, symbol, <<RatiosRow(symbol, ratios)>>, {}, fault)
    IN  [ok |-> txn.committed,
         table |-> IF txn.committed THEN txn.work ELSE ratios_t]

\* ------------------------------------------------------- primary source
\* CompanyDataCollector.get_executives: at most the first five officers of
\* info['companyOfficers']; [] when the list is absent or empty, or when
\* ticker.info raises or is None.
\* Mutant of the slice: AppConfig.MAX_EXECUTIVES taken as its length.
MaxExecutivesConfig == 10
MaxListed == 5
GetExecutives(src) ==
    IF src.kind # "bag" THEN <<>>
    ELSE IF "companyOfficers" \notin DOMAIN src.bag THEN <<>>
    ELSE LET officers == src.bag["companyOfficers"]
             n == IF Len(officers) < MaxListed THEN Len(officers) ELSE MaxListed
         IN  [i \in 1..n |->
                 [f \in {"name", "title"} |-> Get(officers[i], f, NA)]]

\* CompanyDataCollector.get_financial_ratios: the dictionary of the twelve
\* ratios, {} when ticker.info raises or is None or a conversion raises.
GetFinancialRatios(src) ==
    IF src.kind # "bag" THEN EmptyDict
    ELSE IF \E name \in RatioNames :
                SafeGetNumberRaises(src.bag, RatioField(name), Num(0))
    THEN EmptyDict
    ELSE [name \in RatioNames |-> SafeGetNumber(src.bag, RatioField(name), Num(0))]

\* CompanyDataCollector.get_stock_history: the provider's frame, the empty
\* frame when ticker.history raises.
GetStockHistory(hsrc) == IF hsrc.kind = "raise" THEN <<>> ELSE hsrc.frame

\* ------------------------------------------------------- inputs
\* What the providers may answer. A field bag is drawn field by field: each
\* field is absent or holds one of the listed values.
Absent == [t |-> "absent", m |-> 0, e |-> 0, s |-> <<>>]
InfoKeys == {"longName", "shortName", "sector", "marketCap", "fullTimeEmployees",
             "currentPrice"}
BagOf(r) == [k \in {x \in InfoKeys : r[x] # Absent} |-> r[k]]
SrcRaise == [kind |-> "raise", bag |-> EmptyDict]
SrcNone == [kind |-> "none", bag |-> EmptyDict]
SrcBag(d) == [kind |-> "bag", bag |-> d]

TextX == Str(<<"X">>)
InfoBags ==
    {BagOf(r) : r \in [longName : {Absent, PyNone, TextX},
                       shortName : {Absent, TextX},
                       sector : {Absent, TextX},
                       marketCap : {Absent, PyNone, Num(0), Num(7), Num(0 - 7),
                                    Str(<<"x">>)},
                       fullTimeEmployees : {Absent, PyNone, Str(<<"5", "0">>)},
                       currentPrice : {Absent, PyNone, Num(0), Num(3)}]}
InfoSources == {SrcRaise, SrcNone} \cup {SrcBag(d) : d \in InfoBags}

PageError == [kind |-> "error", price |-> <<>>, mcs |-> <<>>]
PageStatus == [kind |-> "status", price |-> <<>>, mcs |-> <<>>]
PriceTexts == {<<>>, <<"4">>, <<"0">>, <<"x">>, <<"1", ",", "5">>}
McTexts == {<<"9">>, <<"$", "2", "m">>, <<"1", ".", "5", "B">>, <<"3", "T">>,
            <<"x">>, <<"0">>}
Pages ==
    {PageError, PageStatus} \cup
    {[kind |-> "ok", price |-> p, mcs |-> m] :
        p \in {<<>>} \cup {<<t>> : t \in PriceTexts},
        m \in {<<>>} \cup {<<t>> : t \in McTexts} \cup {<<<<>>, <<"9">>>>}}

Symbols == {<<"A">>, <<"B">>}

\* Provider answers used by the batch driver's runs.
FullBag ==
    BagOf([longName |-> TextX, shortName |-> TextX, sector |-> TextX,
           marketCap |-> Num(7), fullTimeEmployees |-> Str(<<"5", "0">>),
           currentPrice |-> Num(0)])
SparseBag ==
    BagOf([longName |-> TextX, shortName |-> TextX, sector |-> TextX,
           marketCap |-> Num(7), fullTimeEmployees |-> Absent,
           currentPrice |-> Absent])
DriverSources == {SrcNone, SrcBag(SparseBag), SrcBag(FullBag)}
DriverPages == {[kind |-> "ok", price |-> <<<<"4">>>>, mcs |-> <<<<"9">>>>]}

\* Officer lists of the provider: n officers named o1, o2, ...
DigitChar(i) == CHOOSE c \in Digits : DigitVal(c) = i
Officer(i) == [f \in {"name"} |-> Str(<<"o", DigitChar(i)>>)]
OfficersBag(n) == [k \in {"companyOfficers"} |-> [i \in 1..n |-> Officer(i)]]
ExecSources == {SrcRaise, SrcBag(EmptyDict), SrcBag(OfficersBag(0)),
                SrcBag(OfficersBag(1)), SrcBag(OfficersBag(MaxOfficers))}
DriverExecSources == {SrcBag(OfficersBag(0)), SrcBag(OfficersBag(MaxOfficers))}

\* An int beyond the range of a double, and a full bag holding it.
HugeInt == NumE(1, 400)
OverflowBag == Put(FullBag, "marketCap", HugeInt)

RatioSources == {SrcRaise, SrcNone, SrcBag(EmptyDict),
                 SrcBag([k \in {"trailingPE"} |-> Num(15)]),
                 SrcBag([k \in {"trailingPE"} |-> Str(<<"x">>)]),
                 SrcBag([k \in {"trailingPE"} |-> HugeInt])}
DriverRatioSources == {SrcRaise, SrcBag([k \in {"trailingPE"} |-> Num(15)])}

\* Price frames: rows in increasing timestamp order, at most MaxHist of them.
\* Two timestamps may fall on the same calendar day.
Stamps == {[day |-> 1, tod |-> 0], [day |-> 1, tod |-> 1], [day |-> 2, tod |-> 0]}
StampBefore(a, b) == a.day < b.day \/ (a.day = b.day /\ a.tod < b.tod)
DfRows == {[ts |-> st, close |-> Num(10), volume |-> v] :
              st \in Stamps, v \in {NumE(1005, 0 - 1), NaN}}
RECURSIVE FramesOfLen(_)
FramesOfLen(n) ==
    IF n = 0 THEN {<<>>}
    ELSE {Append(f, r) : f \in FramesOfLen(n - 1), r \in DfRows}
Frames ==
    {f \in UNION {FramesOfLen(n) : n \in 0..MaxHist} :
        \A i \in 1..(Len(f) - 1) : StampBefore(f[i].ts, f[i + 1].ts)}
HistSources == {[kind |-> "raise", frame |-> <<>>]} \cup
               {[kind |-> "frame", frame |-> f] : f \in Frames}
\* The frames the batch driver's runs draw from: the empty frame, one day,
\* and two bars of the same day.
DfRow(d, t) == [ts |-> [day |-> d, tod |-> t], close |-> Num(10),
                volume |-> NumE(1005, 0 - 1)]
DriverHistSources ==
    {[kind |-> "frame", frame |-> f] :
        f \in {<<>>, <<DfRow(2, 0)>>, <<DfRow(1, 0), DfRow(1, 1)>>}}

Faults == {NoFault, [at |-> "connect", k |-> 0], [at |-> "commit", k |-> 0]}
DriverFaults == {NoFault, [at |-> "connect", k |-> 0]}
StoreFaults(n) == Faults \cup {[at |-> "insert", k |-> i] : i \in 1..n}

\* ------------------------------------------------------- state
VARIABLES
    companies,          \* table companies
    stock_history,      \* table stock_history
    executives,         \* table executives
    financial_ratios,   \* table financial_ratios
    pc,                 \* position of the running operation
    driver,             \* "industry" (collect_industry_data) or "custom"
    batch,              \* the symbol list of the batch
    idx,                \* 1-based position of the loop in the batch
    successful,         \* the driver's counters and list
    failed,
    failed_companies,
    company_data,       \* the driver's locals
    execs_v,
    ratios_v,
    history_v,
    info_src,           \* what the providers answered for the current symbol
    page,
    calls,              \* calls made for the current symbol, in order
    outcomes,           \* per processed symbol: "profile", "unavailable", "error"
    companies_before,   \* table companies when the batch (or store call) started
    history_before,     \* table stock_history when the store call started
    prev_call,          \* the store call before the latest one: [op, ok, arg]
    progress,           \* what the driver has displayed, in order
    fetched,            \* batch positions whose profile fetch was issued, in order
    args,               \* arguments of a collector function called on its own
    result              \* what that call did: [raised, value]

vars == <<companies, stock_history, executives, financial_ratios, pc, driver,
          batch, idx, successful, failed, failed_companies, company_data,
          execs_v, ratios_v, history_v, info_src, page, calls, outcomes,
          companies_before, history_before, prev_call, progress, fetched,
          args, result>>

tables == <<companies, stock_history, executives, financial_ratios>>
counters == <<successful, failed, failed_companies>>
locals == <<company_data, execs_v, ratios_v, history_v>>
answers == <<info_src, page>>
ghosts == <<companies_before, history_before, prev_call>>
trace == <<progress, fetched>>
scratch == <<args, result>>
NoResult == [raised |-> FALSE, value |-> <<>>]
NoCall == [op |-> "none", ok |-> FALSE, arg |-> EmptyDict]

Call(op, ok) == [op |-> op, ok |-> ok]

Batches == UNION {[1..n -> Symbols] : n \in 1..MaxBatch}

InitCommon ==
    /\ companies = <<>>
    /\ stock_history = <<>>
    /\ executives = <<>>
    /\ financial_ratios = <<>>
    /\ driver = "industry"
    /\ idx = 1
    /\ successful = 0
    /\ failed = 0
    /\ failed_companies = <<>>
    /\ company_data = Unavailable
    /\ execs_v = <<>>
    /\ ratios_v = EmptyDict
    /\ history_v = <<>>
    /\ calls = <<>>
    /\ outcomes = <<>>
    /\ companies_before = <<>>
    /\ history_before = <<>>
    /\ prev_call = NoCall
    /\ progress = <<>>
    /\ fetched = <<>>
    /\ result = NoResult

\* ------------------------------------------------------- batch driver
Init ==
    /\ InitCommon
    /\ pc = "idle"
    /\ batch = <<>>
    /\ info_src = SrcNone
    /\ page = PageError
    /\ args = <<>>

\* collect_industry_data lines 307-309 / collect_custom_data lines 410-411.
BeginBatch ==
    /\ pc = "idle"
    /\ \E d \in {"industry", "custom"}, list \in Batches :
          /\ driver' = d
          /\ batch' = list
    /\ pc' = "fetch"
    /\ idx' = 1
    /\ successful' = 0
    /\ failed' = 0
    /\ failed_companies' = <<>>
    /\ calls' = <<>>
    /\ outcomes' = <<>>
    /\ companies_before' = companies
    /\ progress' = <<>>
    /\ fetched' = <<>>
    /\ UNCHANGED <<tables, locals, answers, history_before, prev_call, scratch>>

\* What the driver displays at the head of an iteration (lines 312-325 /
\* 415-417) and after the loop (lines 379-405 / 434-435): position, total,
\* symbol and the counters as they stand. The custom driver shows no counters
\* inside the loop.
Report(i, symbol) ==
    [i |-> i, total |-> Len(batch), symbol |-> symbol,
     counts |-> IF driver = "industry" THEN <<successful, failed>> ELSE <<>>]
FinalReport ==
    [i |-> Len(batch), total |-> Len(batch), symbol |-> <<>>,
     counts |-> <<successful, failed>>]

\* Mutant of the failure accounting: the failed symbol is not listed.
CountFailedUnlisted ==
    /\ failed' = failed + 1
    /\ UNCHANGED <<failed_companies, successful>>

\* The failure accounting of both branches (lines 364-365, 373-374); the
\* custom driver keeps no list of failed symbols (lines 426, 431).
CountFailed ==
    /\ failed' = failed + 1
    /\ failed_companies' = IF driver = "industry"
                           THEN Append(failed_companies, batch[idx])
                           ELSE failed_companies
    /\ successful' = successful

\* The calls one call of get_company_basic_info amounts to.
CollectCalls(src, ok) ==
    (IF ScraperCalled(src) THEN <<Call("scrape_yahoo_finance_safe", TRUE)>> ELSE <<>>)
        \o <<Call("get_company_basic_info", ok)>>

\* Mutant of the branch on the fetched profile: the test dropped.
AfterFetchAlwaysSave(company) == "save"
\* `if company_data:` (line 334 / 422): where the iteration goes after the
\* fetch returned.
AfterFetch(company) == IF company.ok THEN "save" ELSE "next"

\* Lines 327-332 and 363-376: the call of get_company_basic_info. `raised` is
\* an exception escaping the call into the driver's handler, which counts the
\* symbol as failed and skips the pacing delay.
Fetch ==
    /\ pc = "fetch"
    /\ progress' = Append(progress, Report(idx, batch[idx]))
    /\ fetched' = Append(fetched, idx)
    /\ \E raised \in BOOLEAN, src \in DriverSources, pg \in DriverPages :
          LET r == GetCompanyBasicInfo(batch[idx], src, pg)
          IN  IF raised
              THEN /\ src = SrcNone
                   /\ info_src' = info_src
                   /\ company_data' = company_data
                   /\ CountFailed
                   /\ calls' = <<Call("get_company_basic_info", FALSE)>>
                   /\ outcomes' = Append(outcomes, "error")
                   /\ pc' = "next"
              ELSE /\ info_src' = src
                   /\ company_data' = r
                   /\ IF r.ok
                      THEN /\ calls' = CollectCalls(src, TRUE)
                           /\ outcomes' = Append(outcomes, "profile")
                           /\ pc' = AfterFetch(r)
                           /\ UNCHANGED counters
                      ELSE /\ CountFailed
                           /\ calls' = Append(CollectCalls(src, FALSE),
                                              Call("sleep", TRUE))
                           /\ outcomes' = Append(outcomes, "unavailable")
                           /\ pc' = AfterFetch(r)
    /\ UNCHANGED <<tables, driver, batch, idx, execs_v, ratios_v, history_v,
                   page, ghosts, scratch>>

\* Mutant of the profile write: a failed write ends the work on the symbol.
SaveProfileOrGiveUp ==
    /\ pc = "save"
    /\ \E fault \in DriverFaults :
          LET res == InsertCompanyData(companies, company_data.data, fault)
          IN  /\ companies' = res.table
              /\ calls' = Append(calls, Call("insert_company_data", res.ok))
              /\ pc' = IF ~res.ok THEN "count"
                       ELSE IF driver = "industry" THEN "execs" ELSE "count"
    /\ UNCHANGED <<stock_history, executives, financial_ratios, driver, batch,
                   idx, counters, locals, answers, outcomes, ghosts, trace,
                   scratch>>

\* Line 336 / 423: the profile write; its result is not looked at.
SaveProfile ==
    /\ pc = "save"
    /\ \E fault \in DriverFaults :
          LET res == InsertCompanyData(companies, company_data.data, fault)
          IN  /\ companies' = res.table
              /\ calls' = Append(calls, Call("insert_company_data", res.ok))
    /\ pc' = IF driver = "industry" THEN "execs" ELSE "count"
    /\ UNCHANGED <<stock_history, executives, financial_ratios, driver, batch,
                   idx, counters, locals, answers, outcomes, ghosts, trace,
                   scratch>>

\* Lines 339-344.
Execs ==
    /\ pc = "execs"
    /\ \E src \in DriverExecSources, fault \in DriverFaults :
          LET got == GetExecutives(src)
              res == InsertExecutives(executives, batch[idx], got, fault)
          IN  /\ execs_v' = got
              /\ IF got # <<>>
                 THEN /\ executives' = res.table
                      /\ calls' = calls \o <<Call("get_executives", TRUE),
                                             Call("insert_executives", res.ok)>>
                 ELSE /\ fault = NoFault
                      /\ executives' = executives
                      /\ calls' = Append(calls, Call("get_executives", TRUE))
    /\ pc' = "ratios"
    /\ UNCHANGED <<companies, stock_history, financial_ratios, driver, batch, idx,
                   counters, company_data, ratios_v, history_v, answers, outcomes,
                   ghosts, trace, scratch>>

\* Lines 346-351.
Ratios ==
    /\ pc = "ratios"
    /\ \E src \in DriverRatioSources, fault \in DriverFaults :
          \E got \in {GetFinancialRatios(src)} :
          \E res \in {InsertFinancialRatios(financial_ratios, batch[idx], got, fault)} :
              /\ ratios_v' = got
              /\ IF DOMAIN got # {}
                 THEN /\ financial_ratios' = res.table
                      /\ calls' = calls \o <<Call("get_financial_ratios", TRUE),
                                             Call("insert_financial_ratios", res.ok)>>
                 ELSE /\ fault = NoFault
                      /\ financial_ratios' = financial_ratios
                      /\ calls' = Append(calls, Call("get_financial_ratios", TRUE))
    /\ pc' = "history"
    /\ UNCHANGED <<companies, stock_history, executives, driver, batch, idx,
                   counters, company_data, execs_v, history_v, answers, outcomes,
                   ghosts, trace, scratch>>

\* Lines 353-358.
History ==
    /\ pc = "history"
    /\ \E src \in DriverHistSources, fault \in DriverFaults :
          LET got == GetStockHistory(src)
              res == InsertStockHistory(stock_history, batch[idx], got, fault)
          IN  /\ history_v' = got
              /\ IF got # <<>>
                 THEN /\ stock_history' = res.table
                      /\ calls' = calls \o <<Call("get_stock_history", TRUE),
                                             Call("insert_stock_history", res.ok)>>
                 ELSE /\ fault = NoFault
                      /\ stock_history' = stock_history
                      /\ calls' = Append(calls, Call("get_stock_history", TRUE))
    /\ pc' = "count"
    /\ UNCHANGED <<companies, executives, financial_ratios, driver, batch, idx,
                   counters, company_data, execs_v, ratios_v, answers, outcomes,
                   ghosts, trace, scratch>>

\* Mutant of the success count: the symbol is counted as failed as well.
CountBoth ==
    /\ pc = "count"
    /\ successful' = successful + 1
    /\ failed' = failed + 1
    /\ calls' = Append(calls, Call("sleep", TRUE))
    /\ pc' = "next"
    /\ UNCHANGED <<tables, driver, batch, idx, failed_companies, locals,
                   answers, outcomes, ghosts, trace, scratch>>

\* Lines 360-370 / 424, 428: the success count and the pacing delay.
Count ==
    /\ pc = "count"
    /\ successful' = successful + 1
    /\ calls' = Append(calls, Call("sleep", TRUE))
    /\ pc' = "next"
    /\ UNCHANGED <<tables, driver, batch, idx, failed, failed_companies, locals,
                   answers, outcomes, ghosts, trace, scratch>>

\* Mutant of the loop: the batch is given up after a symbol that failed.
AdvanceStopOnFailure ==
    /\ pc = "next"
    /\ IF idx < Len(batch) /\ outcomes[idx] = "profile"
       THEN /\ idx' = idx + 1
            /\ pc' = "fetch"
            /\ calls' = <<>>
            /\ progress' = progress
       ELSE /\ pc' = "done"
            /\ progress' = Append(progress, FinalReport)
            /\ UNCHANGED <<idx, calls>>
    /\ UNCHANGED <<tables, driver, batch, counters, locals, answers, outcomes,
                   ghosts, fetched, scratch>>

\* The for loop stepping to the next symbol, or ending (line 311 / 414).
Advance ==
    /\ pc = "next"
    /\ IF idx < Len(batch)
       THEN /\ idx' = idx + 1
            /\ pc' = "fetch"
            /\ calls' = <<>>
            /\ progress' = progress
       ELSE /\ pc' = "done"
            /\ progress' = Append(progress, FinalReport)
            /\ UNCHANGED <<idx, calls>>
    /\ UNCHANGED <<tables, driver, batch, counters, locals, answers, outcomes,
                   ghosts, fetched, scratch>>

Next ==
    \/ BeginBatch
    \/ Fetch
    \/ SaveProfile
    \/ Execs
    \/ Ratios
    \/ History
    \/ Count
    \/ Advance

Spec == Init /\ [][Next]_vars

\* The driver is one thread running a for loop over a finite list; every call
\* in its body returns (the page request has a timeout, the delay is finite),
\* so a step that can be taken is taken.
FairSpec == Spec /\ WF_vars(Next)

\* ------------------------------------------------------- a later batch
\* A batch run on a store in which an earlier batch left history rows: the
\* tables insert_stock_history commits for the frames of the earlier fetch.
EarlierFrames == {<<>>, <<DfRow(1, 0)>>, <<DfRow(1, 0), DfRow(2, 0)>>}
EarlierHistories ==
    {InsertStockHistory(<<>>, <<"A">>, f, NoFault).table : f \in EarlierFrames}

RecollectInit ==
    /\ stock_history \in EarlierHistories
    /\ history_before = stock_history
    /\ companies = <<>>
    /\ executives = <<>>
    /\ financial_ratios = <<>>
    /\ pc = "idle"
    /\ driver = "industry"
    /\ batch = <<>>
    /\ idx = 1
    /\ successful = 0
    /\ failed = 0
    /\ failed_companies = <<>>
    /\ company_data = Unavailable
    /\ execs_v = <<>>
    /\ ratios_v = EmptyDict
    /\ history_v = <<>>
    /\ info_src = SrcNone
    /\ page = PageError
    /\ calls = <<>>
    /\ outcomes = <<>>
    /\ companies_before = <<>>
    /\ prev_call = NoCall
    /\ progress = <<>>
    /\ fetched = <<>>
    /\ args = <<>>
    /\ result = NoResult

RecollectSpec == RecollectInit /\ [][Next]_vars

\* ------------------------------------------------------- collection alone
\* get_company_basic_info applied to any answer of the two sources.
CollectSymbols == {<<"a">>, <<"B">>}
CollectInit ==
    /\ InitCommon
    /\ pc = "collect"
    /\ batch \in {<<sym>> : sym \in CollectSymbols}
    /\ info_src \in InfoSources
    /\ page \in Pages
    /\ args = <<>>

CollectCall ==
    /\ pc = "collect"
    /\ company_data' = GetCompanyBasicInfo(batch[idx], info_src, page)
    /\ calls' = <<Call("get_company_basic_info", company_data'.ok)>>
    /\ pc' = "collected"
    /\ UNCHANGED <<tables, driver, batch, idx, counters, execs_v, ratios_v,
                   history_v, answers, outcomes, ghosts, trace, scratch>>

CollectSpec == CollectInit /\ [][CollectCall]_vars

\* ------------------------------------------------------- store alone
\* Any sequence of profile writes.
StoreInit ==
    /\ InitCommon
    /\ pc = "store"
    /\ batch = <<>>
    /\ info_src = SrcNone
    /\ page = PageError
    /\ args = <<>>

GapBag ==
    BagOf([longName |-> PyNone, shortName |-> TextX, sector |-> TextX,
           marketCap |-> PyNone, fullTimeEmployees |-> PyNone,
           currentPrice |-> Num(3)])
Payloads ==
    {GetCompanyBasicInfo(sym, SrcBag(b), pg).data :
        sym \in Symbols, b \in {FullBag, GapBag}, pg \in DriverPages \cup {PageError}}
    \cup {EmptyDict}
    \cup {[k \in {"symbol"} |-> Str(sym)] : sym \in Symbols}

StoreProfile ==
    /\ pc = "store"
    /\ \E payload \in Payloads, fault \in Faults :
          LET res == InsertCompanyData(companies, payload, fault)
          IN  /\ companies' = res.table
              /\ company_data' = [ok |-> TRUE, data |-> payload]
              /\ calls' = <<Call("insert_company_data", res.ok)>>
    /\ companies_before' = companies
    /\ prev_call' = IF calls = <<>> THEN NoCall
                    ELSE [op |-> calls[1].op, ok |-> calls[1].ok,
                          arg |-> company_data.data]
    /\ UNCHANGED <<stock_history, executives, financial_ratios, pc, driver, batch,
                   idx, counters, execs_v, ratios_v, history_v, answers, outcomes,
                   history_before, trace, scratch>>

ProfileStoreSpec == StoreInit /\ [][StoreProfile]_vars

\* Any sequence of history writes.
StoreHistory ==
    /\ pc = "store"
    /\ \E sym \in Symbols, src \in HistSources :
          \E fault \in StoreFaults(Len(GetStockHistory(src))) :
             LET frame == GetStockHistory(src)
                 res == InsertStockHistory(stock_history, sym, frame, fault)
             IN  /\ batch' = <<sym>>
                 /\ history_v' = frame
                 /\ stock_history' = res.table
                 /\ calls' = <<Call("insert_stock_history", res.ok)>>
    /\ history_before' = stock_history
    /\ UNCHANGED <<companies, executives, financial_ratios, pc, driver, idx,
                   counters, company_data, execs_v, ratios_v, answers, outcomes,
                   companies_before, prev_call, trace, scratch>>

HistoryStoreSpec == StoreInit /\ [][StoreHistory]_vars

\* ------------------------------------------------------- primary source alone
\* One call of one of the four operations of the primary source client, on
\* any answer of the provider. result.raised tells whether an exception left
\* the operation; each of the four bodies is one try whose handler catches
\* Exception and returns.
CallInit ==
    /\ InitCommon
    /\ pc = "call"
    /\ batch = <<>>
    /\ info_src = SrcNone
    /\ page = PageError
    /\ args = <<>>

Returned(fn, sym, src, value) ==
    /\ pc = "call"
    /\ args' = [fn |-> fn, symbol |-> sym, src |-> src]
    /\ result' = [raised |-> FALSE, value |-> value]
    /\ pc' = "returned"
    /\ UNCHANGED <<tables, driver, batch, idx, counters, locals, answers, calls,
                   outcomes, ghosts, trace>>

CallGetCompanyBasicInfo ==
    \E sym \in Symbols, src \in InfoSources \cup {SrcBag(OverflowBag)},
       pg \in DriverPages \cup {PageError} :
        Returned("get_company_basic_info", sym, src, GetCompanyBasicInfo(sym, src, pg))

CallGetStockHistory ==
    \E sym \in Symbols, src \in HistSources :
        Returned("get_stock_history", sym, src, GetStockHistory(src))

CallGetExecutives ==
    \E sym \in Symbols, src \in ExecSources \cup {SrcNone} :
        Returned("get_executives", sym, src, GetExecutives(src))

CallGetFinancialRatios ==
    \E sym \in Symbols, src \in RatioSources :
        Returned("get_financial_ratios", sym, src, GetFinancialRatios(src))

PrimaryNext ==
    \/ CallGetCompanyBasicInfo
    \/ CallGetStockHistory
    \/ CallGetExecutives
    \/ CallGetFinancialRatios

PrimarySpec == CallInit /\ [][PrimaryNext]_vars

\* ------------------------------------------------------- scraper alone
\* One call of the secondary scraper on any page; its body is one try whose
\* handler catches Exception and returns {}.
CallScrapeYahooFinanceSafe ==
    \E sym \in Symbols \cup CollectSymbols, pg \in Pages :
        Returned("scrape_yahoo_finance_safe", sym, pg, ScrapeYahooFinanceSafe(pg))

ScraperSpec == CallInit /\ [][CallScrapeYahooFinanceSafe]_vars

\* ------------------------------------------------------- normalizer alone
\* One call of _safe_get_number on a field bag, a key and a default. The bag
\* holds at most the field "k"; PyList stands for a value float() rejects with
\* TypeError.
PyList == [t |-> "list", m |-> 0, e |-> 0, s |-> <<>>]
FieldValues ==
    {Absent, PyNone, PyList, Num(0), Num(7), Num(0 - 7), NumE(15, 0 - 1), HugeInt,
     EmptyStr, NA, Str(<<"5", "0">>), Str(<<" ", "4", " ">>),
     Str(<<"-", "2", ".", "5">>), Str(<<"1", ".", "5", ".", "2">>), Str(<<"x">>)}
FieldBags == {[k \in {x \in {"k"} : v # Absent} |-> v] : v \in FieldValues}
Defaults == {Num(0), Num(5), PyNone, NA}

CallSafeGetNumber ==
    /\ pc = "call"
    /\ \E info \in FieldBags, key \in {"k", "j"}, default \in Defaults :
          /\ args' = [fn |-> "_safe_get_number", symbol |-> <<>>,
                      src |-> [info |-> info, key |-> key, default |-> default]]
          /\ result' = IF SafeGetNumberRaises(info, key, default)
                       THEN [raised |-> TRUE, value |-> <<>>]
                       ELSE [raised |-> FALSE,
                             value |-> SafeGetNumber(info, key, default)]
    /\ pc' = "returned"
    /\ UNCHANGED <<tables, driver, batch, idx, counters, locals, answers, calls,
                   outcomes, ghosts, trace>>

NormalizerSpec == CallInit /\ [][CallSafeGetNumber]_vars

\* ------------------------------------------------------- market values alone
\* One call of _parse_market_value on a text: an optional lead, a number or
\* something else, and an optional tail of magnitude letters.
MarketLeads == {<<>>, <<"$">>, <<" ">>, <<"T">>}
MarketBodies == {<<"2", ".", "5">>, <<"1", "5", "0", ".", "3">>, <<"4", "5">>,
                 <<"1", ",", "2", "3", "4">>, <<"-", "5">>, <<"x">>, <<>>}
MarketTails == {<<>>, <<"T">>, <<"t">>, <<"B">>, <<"b">>, <<"M">>, <<"m">>,
                <<"B", "M">>, <<"M", " ">>}
MarketTexts ==
    {lead \o body \o tail :
        lead \in MarketLeads, body \in MarketBodies, tail \in MarketTails}
    \cup {<<"g", "a", "r", "b", "a", "g", "e">>}

CallParseMarketValue ==
    \E text \in MarketTexts :
        Returned("_parse_market_value", <<>>, text, ParseMarketValue(text))

MarketValueSpec == CallInit /\ [][CallParseMarketValue]_vars

\* ------------------------------------------------------- descriptions
\* A profile collected from a bag with a business summary and a description
\* of various lengths, then stored.
TextOfLen(n) == Str([i \in 1..n |-> "d"])
Summaries == {Absent, PyNone, EmptyStr, Num(7), TextOfLen(1), TextOfLen(DescLimit - 1),
              TextOfLen(DescLimit), TextOfLen(DescLimit + 1)}
Descriptions == {Absent, EmptyStr, TextOfLen(2), TextOfLen(DescLimit + 1)}
DescribedBags ==
    {[k \in (DOMAIN FullBag)
            \cup {x \in {"longBusinessSummary"} : su # Absent}
            \cup {x \in {"description"} : de # Absent} |->
        IF k = "longBusinessSummary" THEN su
        ELSE IF k = "description" THEN de
        ELSE FullBag[k]] : su \in Summaries, de \in Descriptions}

DescribedInit ==
    /\ InitCommon
    /\ pc = "collect"
    /\ batch \in {<<sym>> : sym \in Symbols}
    /\ info_src \in {SrcBag(b) : b \in DescribedBags}
    /\ page = PageError
    /\ args = <<>>

\* The profile write the drivers make with what was collected (line 336).
StoreCollected ==
    /\ pc = "collected"
    /\ company_data.ok
    /\ LET res == InsertCompanyData(companies, company_data.data, NoFault)
       IN  /\ companies' = res.table
           /\ calls' = Append(calls, Call("insert_company_data", res.ok))
    /\ pc' = "stored"
    /\ UNCHANGED <<stock_history, executives, financial_ratios, driver, batch,
                   idx, counters, locals, answers, outcomes, ghosts, trace,
                   scratch>>

CollectThenStore ==
    \/ CollectCall
    \/ StoreCollected

DescribedSpec == DescribedInit /\ [][CollectThenStore]_vars

\* A profile collected from any answer of the two sources, then stored.
CollectStoreSpec == CollectInit /\ [][CollectThenStore]_vars

\* ------------------------------------------------------- locations alone
\* One call of _format_location on a bag whose city, state and country are
\* each absent, None, empty, a text or a number.
Austin == Str(<<"A", "u", "s", "t", "i", "n">>)
Texas == Str(<<"T", "X">>)
Usa == Str(<<"U", "S", "A">>)
LocationBags ==
    {[k \in {x \in {"city", "state", "country"} : r[x] # Absent} |-> r[k]] :
        r \in [city : {Absent, PyNone, EmptyStr, Austin, Str(<<" ">>), Num(5)},
               state : {Absent, PyNone, EmptyStr, Texas, Num(5)},
               country : {Absent, PyNone, EmptyStr, Usa}]}

CallFormatLocation ==
    \E info \in LocationBags :
        Returned("_format_location", <<>>, info, FormatLocation(info))

LocationSpec == CallInit /\ [][CallFormatLocation]_vars

\* ------------------------------------------------------- the four writes
\* Any sequence of calls of the four store writes, each for either symbol, on
\* the tables the calls before it left. batch holds the symbol written for,
\* calls the call and what it returned.
WriteProfile ==
    /\ pc = "store"
    /\ \E sym \in Symbols, fault \in Faults :
          \E res \in {InsertCompanyData(companies, PrimaryProfile(sym, FullBag), fault)} :
              /\ batch' = <<sym>>
              /\ companies' = res.table
              /\ calls' = <<Call("insert_company_data", res.ok)>>
    /\ UNCHANGED <<stock_history, executives, financial_ratios, pc, driver, idx,
                   counters, locals, answers, outcomes, ghosts, trace, scratch>>

WriteHistory ==
    /\ pc = "store"
    /\ \E sym \in Symbols,
          frame \in EarlierFrames \cup {<<DfRow(2, 0), [DfRow(2, 1) EXCEPT !.volume = NaN]>>} :
          \E fault \in StoreFaults(Len(frame)) :
             \E res \in {InsertStockHistory(stock_history, sym, frame, fault)} :
                 /\ batch' = <<sym>>
                 /\ stock_history' = res.table
                 /\ calls' = <<Call("insert_stock_history", res.ok)>>
    /\ UNCHANGED <<companies, executives, financial_ratios, pc, driver, idx,
                   counters, locals, answers, outcomes, ghosts, trace, scratch>>

WriteExecutives ==
    /\ pc = "store"
    /\ \E sym \in Symbols, n \in 0..1 :
          \E fault \in StoreFaults(n) :
             \E res \in {InsertExecutives(executives, sym,
                                          GetExecutives(SrcBag(OfficersBag(n))), fault)} :
                 /\ batch' = <<sym>>
                 /\ executives' = res.table
                 /\ calls' = <<Call("insert_executives", res.ok)>>
    /\ UNCHANGED <<companies, stock_history, financial_ratios, pc, driver, idx,
                   counters, locals, answers, outcomes, ghosts, trace, scratch>>

WriteRatios ==
    /\ pc = "store"
    /\ \E sym \in Symbols, fault \in StoreFaults(1) :
          \E got \in {GetFinancialRatios(SrcBag([k \in {"trailingPE"} |-> Num(15)]))} :
          \E res \in {InsertFinancialRatios(financial_ratios, sym, got, fault)} :
             /\ batch' = <<sym>>
             /\ financial_ratios' = res.table
             /\ calls' = <<Call("insert_financial_ratios", res.ok)>>
    /\ UNCHANGED <<companies, stock_history, executives, pc, driver, idx,
                   counters, locals, answers, outcomes, ghosts, trace, scratch>>

AnyWrite ==
    \/ WriteProfile
    \/ WriteHistory
    \/ WriteExecutives
    \/ WriteRatios

WriteSpec == StoreInit /\ [][AnyWrite]_vars

\* ======================================================= claims
Sentinels == {Num(0), NA, EmptyStr}
Primary == PrimaryProfile(batch[idx], info_src.bag)
Scraped == ScrapeYahooFinanceSafe(page)
CalledOps == {calls[i].op : i \in 1..Len(calls)}
\* The symbol being processed has had its fetch answered (not raised).
Answered == pc \in {"save", "execs", "ratios", "history", "count", "next", "done"}
                /\ outcomes[idx] # "error"
\* Number of entries of the field bag the primary source returned.
FieldCount(src) == IF src.kind = "bag" THEN Cardinality(DOMAIN src.bag) ELSE 0

\* C1: when the primary source returns no field bag, or a bag with fewer than
\* 5 fields, get_company_basic_info yields Unavailable and the batch driver
\* makes no profile write for the symbol.
C1_SparseIsUnavailable ==
    (Answered /\ FieldCount(info_src) < 5) =>
        /\ company_data = Unavailable
        /\ "insert_company_data" \notin CalledOps
        /\ outcomes[idx] = "unavailable"
C1_Witness ==
    /\ pc = "next"
    /\ outcomes[idx] = "unavailable"
    /\ info_src = SrcBag(SparseBag)
    /\ companies # <<>>

\* C2: the merge never overwrites a primary field whose value is not one of
\* 0, "N/A", "": for every field the scraper returned, the merged profile
\* holds the primary value when that value is not a sentinel.
C2_PrimaryWins ==
    (pc = "collected" /\ company_data.ok) =>
        \A key \in DOMAIN Scraped :
            Primary[key] \notin Sentinels => company_data.data[key] = Primary[key]
C2_Witness ==
    /\ pc = "collected"
    /\ company_data.ok
    /\ \E key \in DOMAIN Scraped :
          /\ Primary[key] \notin Sentinels
          /\ Truthy(Scraped[key])
          /\ Scraped[key] # Primary[key]
          /\ company_data.data[key] = Primary[key]

\* C3: when the scraper returns a value for a field whose primary value is a
\* sentinel (0, "N/A", ""), the merged profile's field equals the scraped value.
C3_SecondaryFillsGaps ==
    (pc = "collected" /\ company_data.ok) =>
        \A key \in DOMAIN Scraped :
            Primary[key] \in Sentinels => company_data.data[key] = Scraped[key]
C3_Witness ==
    /\ pc = "collected"
    /\ company_data.ok
    /\ Primary["market_cap"] = Num(0)
    /\ "market_cap" \in DOMAIN Scraped
    /\ company_data.data["market_cap"] = NumE(15, 8)

\* C4: when a batch finishes, successful counts the symbols whose fetch
\* returned a profile, failed those whose fetch was Unavailable or raised,
\* the list of failed symbols holds exactly those in input order, and every
\* profile row gained belongs to a succeeded symbol.
RECURSIVE FailedOf(_, _)
FailedOf(list, outs) ==
    IF list = <<>> THEN <<>>
    ELSE IF Head(outs) = "profile" THEN FailedOf(Tail(list), Tail(outs))
    ELSE <<Head(list)>> \o FailedOf(Tail(list), Tail(outs))
RowsOf(t, sym) == SelectSeq(t, LAMBDA r : r["symbol"] = sym)
LastCall == calls[Len(calls)]
Payload == company_data.data

\* C5: upsert_profile is idempotent: after the same payload has been inserted
\* twice, the table holds exactly one row for the symbol, with the payload's
\* values, and is the table the first insert left.
C5_UpsertIdempotent ==
    (/\ pc = "store"
     /\ calls = <<Call("insert_company_data", TRUE)>>
     /\ prev_call = [op |-> "insert_company_data", ok |-> TRUE, arg |-> Payload]) =>
        /\ Len(RowsOf(companies, Payload["symbol"])) = 1
        /\ \A col \in DOMAIN Payload :
              RowsOf(companies, Payload["symbol"])[1][col] = Payload[col]
        /\ companies = companies_before
C5_Witness ==
    /\ pc = "store"
    /\ calls = <<Call("insert_company_data", TRUE)>>
    /\ prev_call = [op |-> "insert_company_data", ok |-> TRUE, arg |-> Payload]
    /\ Len(companies) = 2
    /\ "market_cap" \in DOMAIN Payload
    /\ Payload["market_cap"] = Num(7)

\* C6: the companies table never holds two rows for one symbol, and after an
\* upsert every column of the symbol's row comes from the newest payload (the
\* column default where the payload has no value), none from the row it
\* replaced.
C6_OneRowNewestPayload ==
    /\ \A i, j \in 1..Len(companies) :
          companies[i]["symbol"] = companies[j]["symbol"] => i = j
    /\ (pc = "store" /\ calls = <<Call("insert_company_data", TRUE)>>) =>
          /\ Len(RowsOf(companies, Payload["symbol"])) = 1
          /\ \A col \in CompanyColumns :
                RowsOf(companies, Payload["symbol"])[1][col] =
                    IF col \in DOMAIN Payload THEN Payload[col]
                    ELSE IF col \in {"company_name", "sector"} THEN PyNone
                    ELSE IF col = "description" THEN EmptyStr
                    ELSE Num(0)
C6_Witness ==
    /\ pc = "store"
    /\ calls = <<Call("insert_company_data", TRUE)>>
    /\ DOMAIN Payload = {"symbol"}
    /\ Len(RowsOf(companies_before, Payload["symbol"])) = 1
    /\ RowsOf(companies_before, Payload["symbol"])[1]["market_cap"] = Num(7)
    /\ RowsOf(companies, Payload["symbol"])[1]["market_cap"] = Num(0)

\* C7: after a successful insert_stock_history(S, batch) the table holds
\* exactly len(batch) rows for S, however many it held before.
C7_FullReplaceCount ==
    (pc = "store" /\ calls = <<Call("insert_stock_history", TRUE)>>) =>
        Len(RowsOf(stock_history, Str(batch[1]))) = Len(history_v)
C7_Witness ==
    /\ pc = "store"
    /\ calls = <<Call("insert_stock_history", TRUE)>>
    /\ Len(history_v) = 1
    /\ Len(RowsOf(history_before, Str(batch[1]))) = 2
    /\ Len(stock_history) > 1

\* C8: insert_stock_history is atomic: a call in which a row conversion or a
\* statement raises returns False and leaves the table as it was before the
\* call.
C8_HistoryAtomic ==
    (pc = "store" /\ calls # <<>> /\ LastCall.op = "insert_stock_history") =>
        /\ (\E i \in 1..Len(history_v) : history_v[i].volume.t = "nan") => ~LastCall.ok
        /\ ~LastCall.ok => stock_history = history_before
C8_Witness ==
    /\ pc = "store"
    /\ calls = <<Call("insert_stock_history", FALSE)>>
    /\ Len(history_v) = 2
    /\ history_v[1].volume.t = "num"
    /\ history_v[2].volume.t = "nan"
    /\ Len(RowsOf(history_before, Str(batch[1]))) = 1
    /\ stock_history = history_before

\* C9: no two rows of stock_history share the same (symbol, date).
C9_OneRowPerDate ==
    \A i, j \in 1..Len(stock_history) :
        (/\ stock_history[i]["symbol"] = stock_history[j]["symbol"]
         /\ stock_history[i].date = stock_history[j].date) => i = j

\* C10: every store write returns a boolean, and for a symbol whose profile
\* was fetched the industry driver attempts the profile write and the write
\* of each kind whose fetch returned data, whatever the other writes
\* returned; the batch goes on to its last symbol.
OkOf(op) == {calls[i].ok : i \in {k \in 1..Len(calls) : calls[k].op = op}}
C10_FaultsDoNotSpread ==
    /\ \A i \in 1..Len(calls) : calls[i].ok \in BOOLEAN
    /\ (pc = "next" /\ driver = "industry" /\ outcomes[idx] = "profile") =>
          /\ "insert_company_data" \in CalledOps
          /\ "insert_executives" \in CalledOps <=> execs_v # <<>>
          /\ "insert_financial_ratios" \in CalledOps <=> DOMAIN ratios_v # {}
          /\ "insert_stock_history" \in CalledOps <=> history_v # <<>>
    /\ pc = "done" => Len(outcomes) = Len(batch)
C10_Witness ==
    /\ pc = "next"
    /\ driver = "industry"
    /\ outcomes[idx] = "profile"
    /\ Len(RowsOf(companies, Str(batch[idx]))) = 0
    /\ OkOf("insert_company_data") = {FALSE}
    /\ OkOf("insert_executives") = {TRUE}
    /\ OkOf("insert_financial_ratios") = {FALSE}
    /\ OkOf("insert_stock_history") = {TRUE}

\* Calls a symbol's fetch and the pacing delay amount to when nothing else is
\* done for it.
FetchOnlyOps == {"get_company_basic_info", "sleep"}

\* C11: when get_company_basic_info returns Unavailable for a symbol, nothing
\* more is done for it: the secondary scraper is not called, no executives,
\* ratios or history fetch is made and no store write is issued.
C11_NoWorkAfterUnavailable ==
    (pc \in {"next", "done"} /\ outcomes[idx] = "unavailable") =>
        /\ ~ScraperCalled(info_src)
        /\ CalledOps \subseteq FetchOnlyOps
        /\ \A sym \in Symbols :
              Len(RowsOf(companies, Str(sym))) >
                  Len(RowsOf(companies_before, Str(sym))) =>
                      \E k \in 1..Len(batch) : batch[k] = sym /\ outcomes[k] = "profile"
C11_Witness ==
    /\ pc = "next"
    /\ idx = 2
    /\ outcomes = <<"profile", "unavailable">>
    /\ info_src = SrcBag(SparseBag)
    /\ calls = <<Call("get_company_basic_info", FALSE), Call("sleep", TRUE)>>
    /\ Len(companies) = 1
    /\ executives # <<>>

\* The three enrichment fetches.
EnrichmentOps == {"get_executives", "get_financial_ratios", "get_stock_history"}

\* C12: for every symbol of a batch whose profile was fetched, whichever the
\* driver (industry or custom), the executives, ratios and history fetches are
\* all attempted, and the profile row written for the symbol is still stored
\* when the work on the symbol ends.
C12_AllEnrichmentsAttempted ==
    (pc = "next" /\ outcomes[idx] = "profile") =>
        /\ EnrichmentOps \subseteq CalledOps
        /\ OkOf("insert_company_data") = {TRUE} =>
              Len(RowsOf(companies, Str(batch[idx]))) = 1

\* Positions of the batch whose processing has ended.
Ended == IF pc \in {"next", "done"} THEN idx ELSE IF pc = "idle" THEN 0 ELSE idx - 1

InOrderOnce ==
    /\ \A k \in 1..Len(fetched) : fetched[k] = k
    /\ Len(fetched) \in {Ended, Ended + 1}
    /\ Len(fetched) <= Len(batch)
    /\ Len(outcomes) = Len(fetched)
    /\ pc = "done" => Len(fetched) = Len(batch)

\* C14: the symbols of a batch are processed one at a time in input order,
\* the profile fetch of each is issued at most once (no retry), a failed symbol
\* is recorded and the driver goes on, and a batch that has started always
\* ends having processed every symbol of the list.
C14_SequentialNoRetry ==
    /\ []InOrderOnce
    /\ (pc = "fetch") ~> (pc = "done" /\ Len(fetched) = Len(batch))
C14_Witness ==
    /\ pc = "done"
    /\ Len(batch) = 2
    /\ outcomes = <<"unavailable", "profile">>
    /\ fetched = <<1, 2>>
    /\ failed = 1

\* C15: between two successive symbols of a batch the pacing delay is
\* performed, whichever way the first of the two ended: with a profile, with
\* Unavailable, or with an error raised while it was processed.
C15_PacingOnEveryPath ==
    (pc = "next" /\ idx < Len(batch)) => "sleep" \in CalledOps

\* The counts after the first k symbols of the batch.
CountsThrough(k) ==
    <<Cardinality({j \in 1..k : outcomes[j] = "profile"}),
      Cardinality({j \in 1..k : outcomes[j] # "profile"})>>

\* C16: for every symbol whose processing has ended, the progress displayed
\* for it carries its position, the total, the symbol, and success and failure
\* counts that include the symbol's own outcome.
C16_ProgressIncludesOutcome ==
    \A k \in 1..Ended :
        /\ k <= Len(progress)
        /\ progress[k].i = k
        /\ progress[k].total = Len(batch)
        /\ progress[k].symbol = batch[k]
        /\ progress[k].counts = CountsThrough(k)

\* An internal failure of a primary-source operation: the provider call
\* raised, answered no bag where one is used, or a field conversion raised.
FailedInside ==
    CASE args.fn = "get_company_basic_info" ->
            args.src.kind = "raise" \/ (args.src.kind = "bag" /\ ProfileRaises(args.src.bag))
      [] args.fn = "get_stock_history" -> args.src.kind = "raise"
      [] args.fn = "get_executives" -> args.src.kind # "bag"
      [] OTHER ->
            \/ args.src.kind # "bag"
            \/ \E name \in RatioNames :
                  SafeGetNumberRaises(args.src.bag, RatioField(name), Num(0))
AllZeroRatios == [name \in RatioNames |-> Num(0)]

\* C17: none of the four primary-source operations lets an exception out, and
\* on an internal failure get_company_basic_info returns Unavailable,
\* get_stock_history the empty frame, get_executives the empty list and
\* get_financial_ratios the twelve ratios all equal to 0.
C17_FailureResults ==
    pc = "returned" =>
        /\ ~result.raised
        /\ FailedInside =>
              result.value =
                  CASE args.fn = "get_company_basic_info" -> Unavailable
                    [] args.fn = "get_stock_history" -> <<>>
                    [] args.fn = "get_executives" -> <<>>
                    [] OTHER -> AllZeroRatios

\* C18: get_executives returns at most 5 executives whatever the provider's
\* officer list, and the executives table never holds more than 5 rows for a
\* symbol of the batch.
C18_AtMostFiveExecutives ==
    /\ Len(execs_v) <= 5
    /\ \A sym \in Symbols : Len(RowsOf(executives, Str(sym))) <= 5
C18_Witness ==
    /\ pc = "ratios"
    /\ MaxOfficers > 5
    /\ Len(execs_v) = 5
    /\ LastCall = Call("insert_executives", TRUE)
    /\ Len(RowsOf(executives, Str(batch[idx]))) = 5

\* The page the scraper was called on, and what it holds: the text of the
\* price element when it is a number, the text of the first non-empty
\* market-cap cell.
ScrapedPage == args.src
PriceOnPage ==
    IF ScrapedPage.kind = "ok" /\ ScrapedPage.price # <<>>
    THEN ParseFloat(Remove(ScrapedPage.price[1], ","))
    ELSE [ok |-> FALSE, v |-> PyNone]
CapOnPage == IF ScrapedPage.kind = "ok" THEN FirstNonEmpty(ScrapedPage.mcs) ELSE <<>>

\* C19: the secondary scraper never raises and returns a mapping with no key
\* other than current_price and market_cap; a network error, a timeout or a
\* status other than 200 gives the empty mapping; and each of the two fields
\* is returned whenever the page holds it, whether or not the other one could
\* be extracted.
C19_ScraperGuarded ==
    (pc = "returned" /\ args.fn = "scrape_yahoo_finance_safe") =>
        /\ ~result.raised
        /\ DOMAIN result.value \subseteq {"current_price", "market_cap"}
        /\ ScrapedPage.kind # "ok" => result.value = EmptyDict
        /\ PriceOnPage.ok =>
              /\ "current_price" \in DOMAIN result.value
              /\ result.value["current_price"] = PriceOnPage.v
        /\ CapOnPage # <<>> =>
              /\ "market_cap" \in DOMAIN result.value
              /\ result.value["market_cap"] = ParseMarketValue(CapOnPage[1])
C19_Witness ==
    /\ pc = "returned"
    /\ args.fn = "scrape_yahoo_finance_safe"
    /\ ScrapedPage.kind = "ok"
    /\ ScrapedPage.price = <<<<"x">>>>
    /\ ScrapedPage.mcs = <<<<"3", "T">>>>
    /\ DOMAIN result.value = {"market_cap"}
    /\ result.value["market_cap"] = NumE(3, 12)

\* The field _safe_get_number was asked for (Absent when the bag has no such
\* key), whether it is a number or the text of one, and its numeric value.
Field == Get(args.src.info, args.src.key, Absent)
IsNumeric(v) == v.t = "num" \/ (v.t = "str" /\ ParseFloat(v.s).ok)
NumericValue(v) == IF v.t = "num" THEN v ELSE ParseFloat(v.s).v

\* C20: _safe_get_number never raises; it returns the default when the field
\* is absent, null or not coercible to a number, and the field's numeric
\* value otherwise.
C20_NormalizerTotal ==
    (pc = "returned" /\ args.fn = "_safe_get_number") =>
        /\ ~result.raised
        /\ result.value =
              IF Field = Absent \/ Field = PyNone \/ ~IsNumeric(Field)
              THEN args.src.default
              ELSE NumericValue(Field)

\* The text _parse_market_value was given, with blanks stripped, case folded
\* and currency symbols and commas removed; its magnitude suffix, if it ends
\* with one, and the power of ten the suffix stands for.
CleanedText == Remove(Remove(Upper(Strip(args.src)), "$"), ",")
HasSuffix == CleanedText # <<>> /\ CleanedText[Len(CleanedText)] \in {"T", "B", "M"}
SuffixPower ==
    CASE CleanedText[Len(CleanedText)] = "T" -> 12
      [] CleanedText[Len(CleanedText)] = "B" -> 9
      [] OTHER -> 6
BeforeSuffix == SubSeq(CleanedText, 1, Len(CleanedText) - 1)

\* C21: _parse_market_value never raises; after currency symbols and commas
\* are stripped it returns the number before a T, B or M suffix (in either
\* case) scaled by 10^12, 10^9 or 10^6, the number itself for an unsuffixed
\* numeric text, and 0 for every other text.
C21_MarketValueParsed ==
    (pc = "returned" /\ args.fn = "_parse_market_value") =>
        /\ ~result.raised
        /\ result.value =
              IF HasSuffix /\ ParseFloat(BeforeSuffix).ok
              THEN Scale(ParseFloat(BeforeSuffix).v, SuffixPower)
              ELSE IF ParseFloat(CleanedText).ok THEN ParseFloat(CleanedText).v
              ELSE Num(0)

\* C22: the description of a collected profile, and of the profile row stored
\* from it, is at most 500 characters long, whatever the length of the
\* provider's business summary or of its description field.
C22_DescriptionCapped ==
    /\ (pc \in {"collected", "stored"} /\ company_data.ok) =>
          Len(company_data.data["description"].s) <= 500
    /\ \A i \in 1..Len(companies) : Len(companies[i]["description"].s) <= 500

\* The city, state and country _format_location was given, as texts ('' for
\* one that is absent or None), and whether each is a text or missing.
LocationGiven ==
    [i \in 1..3 |->
        LET v == Get(args.src, <<"city", "state", "country">>[i], PyNone)
        IN  IF v.t = "none" THEN <<>> ELSE v.s]
LocationIsText ==
    \A k \in {"city", "state", "country"} :
        Get(args.src, k, PyNone).t \in {"none", "str"}
RECURSIVE CommaJoined(_)
CommaJoined(texts) ==
    IF texts = <<>> THEN <<>>
    ELSE IF Len(texts) = 1 THEN texts[1]
    ELSE texts[1] \o <<",", " ">> \o CommaJoined(Tail(texts))

\* C23: for optional city, state and country texts, _format_location returns
\* the non-empty ones joined with ", " in that order, and "N/A", never the
\* empty string, when all three are absent or empty.
C23_LocationJoined ==
    (pc = "returned" /\ args.fn = "_format_location") =>
        /\ ~result.raised
        /\ result.value # EmptyStr
        /\ LocationIsText =>
              LET given == SelectSeq(LocationGiven, LAMBDA t : t # <<>>)
              IN  result.value = IF given = <<>> THEN NA ELSE Str(CommaJoined(given))
C23_Witness ==
    /\ pc = "returned"
    /\ args.fn = "_format_location"
    /\ args.src = [k \in {"city", "state", "country"} |->
                      CASE k = "city" -> Austin [] k = "state" -> EmptyStr
                        [] OTHER -> Usa]
    /\ result.value = Str(<<"A", "u", "s", "t", "i", "n", ",", " ", "U", "S", "A">>)

\* A number that is a non-negative integer.
IsCount(v) == v.t = "num" /\ v.m >= 0 /\ v.e >= 0

\* C24: every collected profile, and every profile row stored from it, has a
\* market capitalization that is not negative and an employee count that is a
\* non-negative integer, whatever numbers the two sources supply.
C24_NonNegativeFigures ==
    /\ (pc \in {"collected", "stored"} /\ company_data.ok) =>
          /\ company_data.data["market_cap"].m >= 0
          /\ IsCount(company_data.data["employees"])
    /\ \A i \in 1..Len(companies) :
          /\ companies[i]["market_cap"].m >= 0
          /\ IsCount(companies[i]["employees"])

\* The rows insert_stock_history makes of the frame last fetched for the
\* symbol being processed.
LatestRows == [i \in 1..Len(history_v) |-> HistoryRow(batch[idx], history_v[i])]

\* C25: once the industry driver has fetched the history of a symbol, and no
\* history write failed, the rows stored for the symbol are exactly those of
\* that fetch: none of an earlier fetch remains, also when the fetch returned
\* no record.
C25_HistorySuperseded ==
    (/\ pc = "count"
     /\ driver = "industry"
     /\ FALSE \notin OkOf("insert_stock_history")) =>
        RowsOf(stock_history, Str(batch[idx])) = LatestRows

\* Batch positions whose symbol the driver counted as succeeded.
Succeeded == {k \in 1..Len(outcomes) : outcomes[k] = "profile"}

\* C26: when a batch has ended, the driver has counted as succeeded exactly
\* the symbols whose profile was fetched, and each of them has a profile row
\* in the store.
C26_SucceededAreStored ==
    pc = "done" =>
        /\ successful = Cardinality(Succeeded)
        /\ \A k \in Succeeded : RowsOf(companies, Str(batch[k])) # <<>>

\* The table a store write is for, as its place in `tables`, and the rows
\* of a table that belong to other symbols than S.
KindOf(op) ==
    CASE op = "insert_company_data" -> 1
      [] op = "insert_stock_history" -> 2
      [] op = "insert_executives" -> 3
      [] OTHER -> 4
OtherRows(t, S) == SelectSeq(t, LAMBDA r : r["symbol"] # S)

\* C27: a store write for symbol S, whether it returns success or failure,
\* leaves the three tables of the other record kinds as they were, and
\* leaves in its own table every row of every other symbol as it was.
C27_WritesKeepFrame ==
    [][\A k \in 1..4 :
          IF k = KindOf(calls'[1].op)
          THEN OtherRows(tables'[k], Str(batch'[1])) = OtherRows(tables[k], Str(batch'[1]))
          ELSE tables'[k] = tables[k]]_vars
C27_Witness ==
    /\ pc = "store"
    /\ batch = <<<<"A">>>>
    /\ calls = <<Call("insert_stock_history", FALSE)>>
    /\ Len(RowsOf(stock_history, Str(<<"A">>))) = 1
    /\ Len(RowsOf(stock_history, Str(<<"B">>))) = 2
    /\ Len(companies) = 2
    /\ Len(executives) = 2
    /\ Len(financial_ratios) = 2

====
